---- MODULE Spec2Model ----
(***************************************************************************)
(* dark-matter (src/main.rs): a vault CLI.  One invocation of the tool     *)
(* runs one DataManager operation against the database file dm-vault.db    *)
(* of the current directory.  The state is that file (its three tables),   *)
(* and the files of the working tree the file operations read and write.   *)
(* The GPG keyring, the private-key store and the console are outside the  *)
(* program: what they answer to one invocation is an input of that         *)
(* invocation.                                                             *)
(*                                                                         *)
(* Strings the program inspects (names, tags, paths, console answers) are  *)
(* sequences of one-character strings.                                     *)
(***************************************************************************)
EXTENDS Integers, Sequences, FiniteSets, TLC

VARIABLES
    dbExists,   \* Path::new(DB_NAME).exists()
    config,     \* rows of table config: [key, value]
    secrets,    \* rows of table secrets: [name, body, tags]
    flist,      \* rows of table flist: [realpath, body]
    fs,         \* the regular files of the working tree: node -> content
    last,       \* the last invocation: operation, argument, inputs, result, output
    boundKey,   \* history: the key_hash of the init that succeeded
    plain,      \* history: the plaintext of the last successful add/update per record
    tables,     \* the tables the database file has
    procs       \* the invocations that run statement by statement, per process

vars == <<dbExists, config, secrets, flist, fs, last, boundKey, plain, tables, procs>>

----------------------------------------------------------------------------
(* Bounds and input sets *)

MaxContent == 2

Contents == 1..MaxContent

\* The key hashes init is given
Keys == {<<"K", "1">>, <<"K", "2">>}

\* The secret names, tag lists, file names and console answers the invocations
\* are given.
Names == {<<"d">>, <<"a">>}

TagInputs == {<<>>, <<"p">>, <<"p", ",">>, <<"p", ",", "q">>, <<" ", "q">>}

\* a, ./a, d/../a and /w/a (four spellings of /w/a) and d/a
PathInputs ==
    {<<"a">>, <<".", "/", "a">>, <<"d", "/", ".", ".", "/", "a">>,
     <<"/", "w", "/", "a">>, <<"d", "/", "a">>}

Answers == {<<" ", "Y">>, <<"n">>, <<>>}

BasicTags == {<<>>, <<"p">>}

\* a and ./a, and the directory d
BasicPaths == {<<"a">>, <<".", "/", "a">>, <<"d">>}

\* A secret named like the identifier of the file a, and another
SameNames == {<<"/", "w", "/", "a">>, <<"d">>}

\* Secrets without tags
NoTags == {<<>>}

\* a and d/a
SamePaths == {<<"a">>, <<"d", "/", "a">>}

\* The processes that run the tool at the same time
Pids == {"p1", "p2"}

\* The tables init creates
AllTables == {"config", "secrets", "flist"}

GPG_KEY_HASH_CONFIG == "gpg_key_hash"

NoKey == <<>>

None == "-"

\* What the keyring and the engine answer to one invocation: the key is found
\* and can encrypt, is found and cannot, is not found, or the engine fails.
KeyAnswers == {"ok", "noenc", "absent", "engine"}

\* What ctx.decrypt answers to one invocation (error codes 9 and 11, or another).
DecAnswers == {"ok", "nokey", "badpass", "engine"}

----------------------------------------------------------------------------
(* Strings *)

Range(s) == {s[i] : i \in 1..Len(s)}

\* The bytes of the characters the model uses (ASCII).
Code(c) ==
    CASE c = " " -> 32
      [] c = "," -> 44
      [] c = "." -> 46
      [] c = "/" -> 47
      [] c = "N" -> 78
      [] c = "Y" -> 89
      [] c = "a" -> 97
      [] c = "d" -> 100
      [] c = "n" -> 110
      [] c = "p" -> 112
      [] c = "q" -> 113
      [] c = "w" -> 119
      [] c = "y" -> 121

\* str < str (bytewise), the order of SQLite's ORDER BY on a TEXT column.
RECURSIVE StrLess(_, _)
StrLess(a, b) ==
    IF b = <<>> THEN FALSE
    ELSE IF a = <<>> THEN TRUE
    ELSE IF Code(Head(a)) # Code(Head(b)) THEN Code(Head(a)) < Code(Head(b))
    ELSE StrLess(Tail(a), Tail(b))

\* str::split(sep): the pieces between the separators; "" gives one empty piece.
RECURSIVE SplitAt(_, _)
SplitAt(s, sep) ==
    IF \A i \in 1..Len(s) : s[i] # sep THEN <<s>>
    ELSE LET i == CHOOSE k \in 1..Len(s) :
                      s[k] = sep /\ \A j \in 1..(k - 1) : s[j] # sep
         IN  <<SubSeq(s, 1, i - 1)>> \o SplitAt(SubSeq(s, i + 1, Len(s)), sep)

RECURSIVE TrimStart(_)
TrimStart(s) ==
    IF s # <<>> /\ Head(s) = " " THEN TrimStart(Tail(s)) ELSE s

RECURSIVE TrimEnd(_)
TrimEnd(s) ==
    IF s # <<>> /\ s[Len(s)] = " " THEN TrimEnd(SubSeq(s, 1, Len(s) - 1)) ELSE s

\* str::trim
Trim(s) == TrimEnd(TrimStart(s))

\* str::to_lowercase
ToLower(s) ==
    [i \in 1..Len(s) |-> CASE s[i] = "Y" -> "y" [] s[i] = "N" -> "n" [] OTHER -> s[i]]

----------------------------------------------------------------------------
(* Paths and the file system *)

\* std::env::current_dir()
CurrentDir == <<"/", "w">>

\* The directories of the tree (as lists of components): /, /w and /w/d.
Dirs == {<<>>, <<<<"w">>>>, <<<<"w">>, <<"d">>>>}

\* The regular files the tree can hold: /w/a and /w/d/a.
FileNodes == {<<<<"w">>, <<"a">>>>, <<<<"w">>, <<"d">>, <<"a">>>>}

\* Where a walk ends that goes through something that is no directory.
NoNode == <<<<"?">>>>

\* Mutation: no path is taken for absolute
is_absolute_never(p) == FALSE

\* Path::is_absolute
is_absolute(p) == p # <<>> /\ Head(p) = "/"

\* Path::join
join(base, p) ==
    IF is_absolute(p) THEN p
    ELSE IF base # <<>> /\ base[Len(base)] = "/" THEN base \o p
    ELSE base \o <<"/">> \o p

get_absolute_path(filename) ==
    IF is_absolute(filename) THEN filename ELSE join(CurrentDir, filename)

\* The components of a path: the non-empty pieces between slashes.
Components(p) == SelectSeq(SplitAt(p, "/"), LAMBDA c : c # <<>>)

\* Mutation: --relative keeps the whole path
file_name_whole(p) == p

\* Path::file_name: the last component, unless it is ".." (then there is none)
file_name(p) ==
    LET cs == SelectSeq(Components(p), LAMBDA c : c # <<".">>)
    IN  IF cs = <<>> \/ cs[Len(cs)] = <<".", ".">> THEN <<>>
        ELSE cs[Len(cs)]

\* The node the operating system reaches walking the components from `at`:
\* "." stays, ".." goes up, a name goes down (only from a directory).
RECURSIVE Walk(_, _)
Walk(at, cs) ==
    IF cs = <<>> THEN at
    ELSE IF at \notin Dirs THEN NoNode
    ELSE IF Head(cs) = <<".">> THEN Walk(at, Tail(cs))
    ELSE IF Head(cs) = <<".", ".">>
         THEN Walk(IF at = <<>> THEN at ELSE SubSeq(at, 1, Len(at) - 1), Tail(cs))
    ELSE Walk(Append(at, Head(cs)), Tail(cs))

\* The node a path names for the operating system (a relative path is walked
\* from the current directory).
Node(p) == Walk(<<>>, Components(join(CurrentDir, p)))

\* Path::exists
PathExists(p) == Node(p) \in Dirs \/ Node(p) \in DOMAIN fs

\* fs::read succeeds on a regular file (on a directory it is an io::Error)
CanRead(p) == Node(p) \in DOMAIN fs

\* fs::read: the bytes of a regular file
ReadFile(p) == fs[Node(p)]

\* fs::write can create or overwrite a regular file in an existing directory
CanWrite(p) == Node(p) \in FileNodes

\* The files after fs::write(p, content)
WriteFile(files, p, content) ==
    [n \in DOMAIN files \cup {Node(p)} |-> IF n = Node(p) THEN content ELSE files[n]]

----------------------------------------------------------------------------
(* The encryption engine (gpgme), as the program uses it *)

\* A ciphertext: an OpenPGP message to the recipient key, holding the data.
Ciphertext(key_hash, content) == [to |-> key_hash, data |-> content]

\* Mutation: init does not verify the key
verify_gpg_key_skipped(answer) == "Ok"

\* verify_gpg_key: Ok for a key that is found and can encrypt
verify_gpg_key(answer) ==
    IF answer = "engine" THEN "GpgError"
    ELSE IF answer = "absent" THEN "GpgKeyNotFound"
    ELSE IF answer = "noenc" THEN "GpgKeyNotFound"
    ELSE "Ok"

\* encrypt_content: the error of get_key, code 110 for a key that cannot
\* encrypt, the error of ctx.encrypt, or Ok with the ciphertext
\* Mutation: the errors of get_key, can_encrypt and ctx.encrypt are ignored
encrypt_error_ignored(answer) == "Ok"

encrypt_error(answer) == IF answer = "ok" THEN "Ok" ELSE "GpgError"

\* Mutation: the content is stored as it is, encrypted to no key
encrypt_content_skipped(content, key_hash) == [to |-> NoKey, data |-> content]

encrypt_content(content, key_hash) == Ciphertext(key_hash, content)

\* Mutation: the error of ctx.decrypt is ignored
decrypt_error_ignored(answer) == "Ok"

\* decrypt_content: the error of ctx.decrypt, or Ok with the plaintext
decrypt_error(answer) == IF answer = "ok" THEN "Ok" ELSE "GpgError"

decrypt_content(encrypted_content) == encrypted_content.data

----------------------------------------------------------------------------
(* The tables of dm-vault.db and the statements the program runs on them *)

\* Mutation: the two parameters of the INSERT are swapped
ConfigRowSwapped(key_hash) == [key |-> key_hash, value |-> GPG_KEY_HASH_CONFIG]

\* INSERT INTO config (key, value) VALUES (GPG_KEY_HASH_CONFIG, key_hash)
ConfigRow(key_hash) == [key |-> GPG_KEY_HASH_CONFIG, value |-> key_hash]

\* SELECT value FROM config WHERE key = 'gpg_key_hash'
ConfigValues == {r.value : r \in {c \in config : c.key = GPG_KEY_HASH_CONFIG}}

\* get_gpg_key_hash: the value of the row, when query_row finds one
get_gpg_key_hash == CHOOSE v \in ConfigValues : TRUE

\* Mutation: the count finds no row (the query compares another column)
CountSecretsNoMatch(name) == 0

\* SELECT COUNT(id) FROM secrets WHERE name = ?1
CountSecrets(name) == Cardinality({r \in secrets : r.name = name})

\* SELECT body FROM secrets WHERE name = ?1 (query_row: the first row)
SecretBody(name) == (CHOOSE r \in secrets : r.name = name).body

\* INSERT INTO secrets (name, body, tags) VALUES (?1, ?2, ?3)
InsertSecret(rows, name, body, tags) ==
    rows \cup {[name |-> name, body |-> body, tags |-> tags]}

\* Mutation: the statement is torn, the body is written and the tags are not
UpdateSecretBodyTagsTorn(rows, name, body, tags) ==
    {IF r.name = name THEN [r EXCEPT !.body = body] ELSE r : r \in rows}

\* UPDATE secrets SET body = ?1, tags = ?2 WHERE name = ?3
UpdateSecretBodyTags(rows, name, body, tags) ==
    {IF r.name = name THEN [r EXCEPT !.body = body, !.tags = tags] ELSE r : r \in rows}

\* Mutation: the statement without tags stores the empty tag list given
UpdateSecretBodyClearTags(rows, name, body) ==
    {IF r.name = name THEN [r EXCEPT !.body = body, !.tags = <<>>] ELSE r : r \in rows}

\* UPDATE secrets SET body = ?1 WHERE name = ?2
UpdateSecretBody(rows, name, body) ==
    {IF r.name = name THEN [r EXCEPT !.body = body] ELSE r : r \in rows}

\* Mutation: the WHERE clause is lost and every row is deleted
DeleteSecretAll(rows, name) == {}

\* DELETE FROM secrets WHERE name = ?1
DeleteSecret(rows, name) == {r \in rows : r.name # name}

\* Mutation: the WHERE clause is lost and every row is counted
CountFlistAll(realpath) == Cardinality(flist)

\* SELECT COUNT(*) FROM flist WHERE realpath = ?1
CountFlist(realpath) == Cardinality({r \in flist : r.realpath = realpath})

\* SELECT body FROM flist WHERE realpath = ?1 (query_row: the first row)
FileBody(realpath) == (CHOOSE r \in flist : r.realpath = realpath).body

\* INSERT INTO flist (realpath, body) VALUES (?1, ?2)
InsertFile(rows, realpath, body) ==
    rows \cup {[realpath |-> realpath, body |-> body]}

\* Mutation: the WHERE clause is lost and every row gets the body
UpdateFileBodyAllRows(rows, realpath, body) == {[r EXCEPT !.body = body] : r \in rows}

\* Mutation: the UPDATE matches no row and the old body stays
UpdateFileBodyNoRow(rows, realpath, body) == rows

\* UPDATE flist SET body = ?1 WHERE realpath = ?2
UpdateFileBody(rows, realpath, body) ==
    {IF r.realpath = realpath THEN [r EXCEPT !.body = body] ELSE r : r \in rows}

\* DELETE FROM flist WHERE realpath = ?1
DeleteFile(rows, realpath) == {r \in rows : r.realpath # realpath}

\* Mutation: ORDER BY ... DESC
RECURSIVE OrderByDesc(_)
OrderByDesc(S) ==
    IF S = {} THEN <<>>
    ELSE LET m == CHOOSE x \in S : \A y \in S : ~StrLess(x, y)
         IN  <<m>> \o OrderByDesc(S \ {m})

\* ORDER BY: the strings of a set in increasing order
RECURSIVE OrderBy(_)
OrderBy(S) ==
    IF S = {} THEN <<>>
    ELSE LET m == CHOOSE x \in S : \A y \in S : ~StrLess(y, x)
         IN  <<m>> \o OrderBy(S \ {m})

----------------------------------------------------------------------------
(* What an invocation leaves behind: its result and what it printed *)

\* Mutation: main drops the result of the operation and returns
exit_code_dropped(res) == 0

\* main: std::process::exit(1) on Err, the return from main (0) otherwise
exit_code(res) == IF res = "Ok" THEN 0 ELSE 1

\* op, arg: the operation and the identifier (or filter, or key) it was given;
\* val, tags: the value (none or one) and the tags given to a secret add or
\*   update (val: the content read by a file add or update);
\* rel, confirm: the flags of export;
\* key, dec: what the keyring and the decryption answered (None when the
\*   invocation did not ask); ans: the lines read from the console;
\* res: Ok or the DmError; note: the notice of remove; out: what it printed
\*   (list, show) or the file name export wrote to (empty when it wrote nothing);
\* code: the exit code main gives the process for res (none while no
\*   invocation runs).
Outcome(op, arg, res) ==
    [op |-> op, arg |-> arg, val |-> <<>>, tags |-> <<>>, rel |-> FALSE,
     confirm |-> FALSE, key |-> None, dec |-> None, ans |-> <<>>, res |-> res,
     note |-> None, out |-> <<>>,
     code |-> IF res = None THEN <<>> ELSE <<exit_code(res)>>]

NoInvocation == Outcome("none", <<>>, None)

\* No invocation is running: the tool is started from the shell, one
\* invocation after the other.
Idle == last.op = "none"

\* The history of plaintexts: one entry per record that exists.
SetPlain(kind, id, content) ==
    {e \in plain : ~(e.kind = kind /\ e.id = id)}
        \cup {[kind |-> kind, id |-> id, data |-> content]}

DropPlain(kind, id) == {e \in plain : ~(e.kind = kind /\ e.id = id)}

----------------------------------------------------------------------------
(* The operations of DataManager *)

\* Mutation: open_database does not look for the file (Connection::open
\* creates the database)
open_database_unchecked == "Ok"

\* open_database: Err(DatabaseNotFound) unless the file exists
open_database == IF dbExists THEN "Ok" ELSE "DatabaseNotFound"

Unchanged(op, arg, res) ==
    /\ last' = Outcome(op, arg, res)
    /\ UNCHANGED <<dbExists, tables, config, secrets, flist, fs, boundKey, plain>>

\* Mutation: init does not look for the database file
DbAlreadyExistsUnchecked == FALSE

\* init: "Check if database already exists"
DbAlreadyExists == dbExists

init(key_hash) ==
    /\ Idle
    /\ UNCHANGED procs
    /\ IF DbAlreadyExists
        THEN Unchanged("init", key_hash, "DatabaseAlreadyExists")
        ELSE \E answer \in KeyAnswers :
            IF verify_gpg_key(answer) # "Ok"
            THEN /\ last' = [Outcome("init", key_hash, verify_gpg_key(answer))
                                EXCEPT !.key = answer]
                 /\ UNCHANGED <<dbExists, tables, config, secrets, flist, fs, boundKey, plain>>
            ELSE /\ dbExists' = TRUE
                 /\ tables' = AllTables
                 /\ config' = {ConfigRow(key_hash)}
                 /\ secrets' = {}
                 /\ flist' = {}
                 /\ boundKey' = key_hash
                 /\ last' = [Outcome("init", key_hash, "Ok") EXCEPT !.key = answer]
                 /\ UNCHANGED <<fs, plain>>

SecretOutcome(op, name, value, tags, answer, res) ==
    [Outcome(op, name, res) EXCEPT !.val = <<value>>, !.tags = tags, !.key = answer]

SecretUnchanged(op, name, value, tags, answer, res) ==
    /\ last' = SecretOutcome(op, name, value, tags, answer, res)
    /\ UNCHANGED <<dbExists, tables, config, secrets, flist, fs, boundKey, plain>>

add_secret(name, value, tags) ==
    /\ Idle
    /\ UNCHANGED procs
    /\ IF open_database # "Ok"
        THEN SecretUnchanged("add_secret", name, value, tags, None, open_database)
        ELSE IF CountSecrets(name) > 0
        THEN SecretUnchanged("add_secret", name, value, tags, None, "FileAlreadyExists")
        ELSE IF ConfigValues = {}
        THEN SecretUnchanged("add_secret", name, value, tags, None, "DatabaseError")
        ELSE \E answer \in KeyAnswers :
            IF encrypt_error(answer) # "Ok"
            THEN SecretUnchanged("add_secret", name, value, tags, answer, "GpgError")
            ELSE /\ secrets' = InsertSecret(secrets, name,
                                   encrypt_content(value, get_gpg_key_hash), tags)
                 /\ plain' = SetPlain("secret", name, value)
                 /\ last' = SecretOutcome("add_secret", name, value, tags, answer, "Ok")
                 /\ UNCHANGED <<dbExists, tables, config, flist, fs, boundKey>>

\* The filter of list_secrets: some stored tag equals some requested tag
TagMatch(stored, tags) ==
    \E t \in Range(SplitAt(stored, ",")) :
        \E tag \in Range(SplitAt(tags, ",")) : Trim(tag) = Trim(t)

\* The (name, tags) pairs list_secrets prints, in their order
ListedSecrets(tags) ==
    LET names == OrderBy({r.name : r \in secrets})
        rows  == [i \in 1..Len(names) |-> CHOOSE r \in secrets : r.name = names[i]]
        kept  == SelectSeq(rows, LAMBDA r : tags = <<>> \/ TagMatch(r.tags, tags))
    IN  [i \in 1..Len(kept) |-> <<kept[i].name, kept[i].tags>>]

list_secrets(tags) ==
    /\ Idle
    /\ UNCHANGED procs
    /\ IF open_database # "Ok"
        THEN Unchanged("list_secrets", tags, open_database)
        ELSE /\ last' = [Outcome("list_secrets", tags, "Ok") EXCEPT !.out = ListedSecrets(tags)]
             /\ UNCHANGED <<dbExists, tables, config, secrets, flist, fs, boundKey, plain>>

update_secret(name, value, tags) ==
    /\ Idle
    /\ UNCHANGED procs
    /\ IF open_database # "Ok"
        THEN SecretUnchanged("update_secret", name, value, tags, None, open_database)
        ELSE IF CountSecrets(name) = 0
        THEN SecretUnchanged("update_secret", name, value, tags, None, "FileNotInStorage")
        ELSE IF ConfigValues = {}
        THEN SecretUnchanged("update_secret", name, value, tags, None, "DatabaseError")
        ELSE \E answer \in KeyAnswers :
            IF encrypt_error(answer) # "Ok"
            THEN SecretUnchanged("update_secret", name, value, tags, answer, "GpgError")
            ELSE /\ secrets' =
                        IF tags # <<>>
                        THEN UpdateSecretBodyTags(secrets, name,
                                 encrypt_content(value, get_gpg_key_hash), tags)
                        ELSE UpdateSecretBody(secrets, name,
                                 encrypt_content(value, get_gpg_key_hash))
                 /\ plain' = SetPlain("secret", name, value)
                 /\ last' = SecretOutcome("update_secret", name, value, tags, answer, "Ok")
                 /\ UNCHANGED <<dbExists, tables, config, flist, fs, boundKey>>

remove_secret(name) ==
    /\ Idle
    /\ UNCHANGED procs
    /\ IF open_database # "Ok"
        THEN Unchanged("remove_secret", name, open_database)
        ELSE /\ secrets' = DeleteSecret(secrets, name)
             /\ plain' = DropPlain("secret", name)
             /\ last' = [Outcome("remove_secret", name, "Ok") EXCEPT
                            !.note = IF CountSecrets(name) = 0 THEN "not found" ELSE "removed"]
             /\ UNCHANGED <<dbExists, tables, config, flist, fs, boundKey>>

\* Mutation: the error of update_secret, copied
show_secret_query_error_copied == "FileNotInStorage"

\* show_secret: any error of the query is mapped to SecretNotInStorage
show_secret_query_error == "SecretNotInStorage"

\* export: any error of the query is mapped to FileNotInStorage
export_query_error == "FileNotInStorage"

show_secret(name) ==
    /\ Idle
    /\ UNCHANGED procs
    /\ IF open_database # "Ok"
        THEN Unchanged("show_secret", name, open_database)
        ELSE IF CountSecrets(name) = 0
        THEN Unchanged("show_secret", name, show_secret_query_error)
        ELSE \E answer \in DecAnswers :
            /\ last' = IF decrypt_error(answer) # "Ok"
                       THEN [Outcome("show_secret", name, "GpgError") EXCEPT !.dec = answer]
                       ELSE [Outcome("show_secret", name, "Ok") EXCEPT
                                !.dec = answer, !.out = <<decrypt_content(SecretBody(name))>>]
            /\ UNCHANGED <<dbExists, tables, config, secrets, flist, fs, boundKey, plain>>

FileOutcome(op, filename, content, answer, res) ==
    [Outcome(op, filename, res) EXCEPT !.val = <<content>>, !.key = answer]

add(filename) ==
    /\ Idle
    /\ UNCHANGED procs
    /\ LET realpath == get_absolute_path(filename) IN
        IF open_database # "Ok"
        THEN Unchanged("add", filename, open_database)
        ELSE IF ~PathExists(filename)
        THEN Unchanged("add", filename, "FileNotFound")
        ELSE IF CountFlist(realpath) > 0
        THEN Unchanged("add", filename, "FileAlreadyExists")
        ELSE IF ~CanRead(filename)
        THEN Unchanged("add", filename, "IoError")
        ELSE IF ConfigValues = {}
        THEN Unchanged("add", filename, "DatabaseError")
        ELSE \E answer \in KeyAnswers :
            IF encrypt_error(answer) # "Ok"
            THEN /\ last' = FileOutcome("add", filename, ReadFile(filename), answer, "GpgError")
                 /\ UNCHANGED <<dbExists, tables, config, secrets, flist, fs, boundKey, plain>>
            ELSE /\ flist' = InsertFile(flist, realpath,
                                 encrypt_content(ReadFile(filename), get_gpg_key_hash))
                 /\ plain' = SetPlain("file", realpath, ReadFile(filename))
                 /\ last' = FileOutcome("add", filename, ReadFile(filename), answer, "Ok")
                 /\ UNCHANGED <<dbExists, tables, config, secrets, fs, boundKey>>

\* The paths list prints, in their order
ListedFiles == OrderBy({r.realpath : r \in flist})

list ==
    /\ Idle
    /\ UNCHANGED procs
    /\ IF open_database # "Ok"
        THEN Unchanged("list", <<>>, open_database)
        ELSE /\ last' = [Outcome("list", <<>>, "Ok") EXCEPT !.out = ListedFiles]
             /\ UNCHANGED <<dbExists, tables, config, secrets, flist, fs, boundKey, plain>>

update(filename) ==
    /\ Idle
    /\ UNCHANGED procs
    /\ LET realpath == get_absolute_path(filename) IN
        IF open_database # "Ok"
        THEN Unchanged("update", filename, open_database)
        ELSE IF ~PathExists(filename)
        THEN Unchanged("update", filename, "FileNotFound")
        ELSE IF CountFlist(realpath) = 0
        THEN Unchanged("update", filename, "FileNotInStorage")
        ELSE IF ~CanRead(filename)
        THEN Unchanged("update", filename, "IoError")
        ELSE IF ConfigValues = {}
        THEN Unchanged("update", filename, "DatabaseError")
        ELSE \E answer \in KeyAnswers :
            IF encrypt_error(answer) # "Ok"
            THEN /\ last' = FileOutcome("update", filename, ReadFile(filename), answer, "GpgError")
                 /\ UNCHANGED <<dbExists, tables, config, secrets, flist, fs, boundKey, plain>>
            ELSE /\ flist' = UpdateFileBody(flist, realpath,
                                 encrypt_content(ReadFile(filename), get_gpg_key_hash))
                 /\ plain' = SetPlain("file", realpath, ReadFile(filename))
                 /\ last' = FileOutcome("update", filename, ReadFile(filename), answer, "Ok")
                 /\ UNCHANGED <<dbExists, tables, config, secrets, fs, boundKey>>

remove(filename) ==
    /\ Idle
    /\ UNCHANGED procs
    /\ LET realpath == get_absolute_path(filename) IN
        IF open_database # "Ok"
        THEN Unchanged("remove", filename, open_database)
        ELSE /\ flist' = DeleteFile(flist, realpath)
             /\ plain' = DropPlain("file", realpath)
             /\ last' = [Outcome("remove", filename, "Ok") EXCEPT
                            !.note = IF CountFlist(realpath) = 0 THEN "not found" ELSE "removed"]
             /\ UNCHANGED <<dbExists, tables, config, secrets, fs, boundKey>>

\* Mutation: every answer lets export go on
AcceptsAnything(input) == TRUE

\* The answer to "Overwrite? (y/N)" that lets export go on
Accepts(input) ==
    LET t == ToLower(Trim(input)) IN t # <<>> /\ Head(t) = "y"

ExportOutcome(filename, rel, confirm, answer, lines, res, out) ==
    [Outcome("export", filename, res) EXCEPT
        !.rel = rel, !.confirm = confirm, !.dec = answer, !.ans = lines, !.out = out]

\* The end of export: fs::write(output_filename, decrypted_content)
ExportWrite(filename, rel, confirm, answer, lines, output_filename, content) ==
    IF CanWrite(output_filename)
    THEN /\ fs' = WriteFile(fs, output_filename, content)
         /\ last' = ExportOutcome(filename, rel, confirm, answer, lines, "Ok",
                                  output_filename)
         /\ UNCHANGED <<dbExists, tables, config, secrets, flist, boundKey, plain>>
    ELSE /\ last' = ExportOutcome(filename, rel, confirm, answer, lines, "IoError", <<>>)
         /\ UNCHANGED <<dbExists, tables, config, secrets, flist, fs, boundKey, plain>>

export(filename, rel, confirm) ==
    /\ Idle
    /\ UNCHANGED procs
    /\ LET realpath        == get_absolute_path(filename)
            output_filename == IF rel THEN file_name(filename) ELSE filename
        IN
        IF open_database # "Ok"
        THEN /\ last' = ExportOutcome(filename, rel, confirm, None, <<>>, open_database, <<>>)
             /\ UNCHANGED <<dbExists, tables, config, secrets, flist, fs, boundKey, plain>>
        ELSE IF CountFlist(realpath) = 0
        THEN /\ last' = ExportOutcome(filename, rel, confirm, None, <<>>,
                                      export_query_error, <<>>)
             /\ UNCHANGED <<dbExists, tables, config, secrets, flist, fs, boundKey, plain>>
        ELSE \E answer \in DecAnswers :
            IF decrypt_error(answer) # "Ok"
            THEN /\ last' = ExportOutcome(filename, rel, confirm, answer, <<>>, "GpgError", <<>>)
                 /\ UNCHANGED <<dbExists, tables, config, secrets, flist, fs, boundKey, plain>>
            ELSE IF ~confirm /\ PathExists(output_filename)
            THEN \E input \in Answers :
                IF ~Accepts(input)
                THEN /\ last' = ExportOutcome(filename, rel, confirm, answer, <<input>>,
                                              "Ok", <<>>)
                     /\ UNCHANGED <<dbExists, tables, config, secrets, flist, fs, boundKey, plain>>
                ELSE ExportWrite(filename, rel, confirm, answer, <<input>>, output_filename,
                                 decrypt_content(FileBody(realpath)))
            ELSE ExportWrite(filename, rel, confirm, answer, <<>>, output_filename,
                             decrypt_content(FileBody(realpath)))

----------------------------------------------------------------------------
(* The user's own changes to the files of the working tree *)

EditFile(node, content) ==
    /\ Idle
    /\ UNCHANGED procs
    /\ node \in FileNodes
    /\ fs' = [n \in DOMAIN fs \cup {node} |-> IF n = node THEN content ELSE fs[n]]
    /\ UNCHANGED <<dbExists, tables, config, secrets, flist, last, boundKey, plain>>

UnlinkFile(node) ==
    /\ Idle
    /\ UNCHANGED procs
    /\ node \in DOMAIN fs
    /\ fs' = [n \in DOMAIN fs \ {node} |-> fs[n]]
    /\ UNCHANGED <<dbExists, tables, config, secrets, flist, last, boundKey, plain>>

----------------------------------------------------------------------------
(* The operations statement by statement.  A process runs one invocation;   *)
(* between two of its statements another process may run its own, and the   *)
(* process may be interrupted.  Each SQL statement is one step (SQLite       *)
(* commits a statement as a whole).                                          *)

\* A process: pc is the place in the operation ("none": no invocation yet;
\* "done": returned res from the place `at`; "killed": interrupted at `at`);
\* op, id, val, tags: the operation and its arguments (val: the value given,
\* or the content read from the file); body: the ciphertext it computed.
Process(pc, op, id, val, tags) ==
    [pc |-> pc, op |-> op, id |-> id, val |-> val, tags |-> tags, body |-> <<>>,
     res |-> None, at |-> None]

NotRunning == Process("none", "none", <<>>, <<>>, <<>>)

\* The process p goes to pc
Goto(p, pc) == procs' = [procs EXCEPT ![p].pc = pc]

\* The invocation of p is over at the place `at`, as `pc` ("done", "killed"):
\* what it held in memory is gone
Over(p, pc, res) ==
    procs' = [procs EXCEPT ![p] =
                 [Process(pc, procs[p].op, procs[p].id, <<>>, <<>>)
                     EXCEPT !.res = res, !.at = procs[p].pc]]

\* The operation of p returns res
Return(p, res) == Over(p, "done", res)

SecretOps == {"add_secret", "update_secret", "remove_secret"}

FileOps == {"add", "update", "remove"}

\* The table an operation works on
TableOf(op) == IF op \in FileOps THEN "flist" ELSE "secrets"

\* The identifier of the record of p: the name, or get_absolute_path(filename)
RecordId(p) ==
    IF procs[p].op \in FileOps THEN get_absolute_path(procs[p].id) ELSE procs[p].id

\* SELECT COUNT(..) WHERE name/realpath = the identifier of p
Count(p) ==
    IF procs[p].op \in FileOps THEN CountFlist(RecordId(p)) ELSE CountSecrets(RecordId(p))

\* A process starts an invocation: main parses the command line.
Start(p, op, id, val, tags) ==
    /\ procs[p].pc \in {"none", "done", "killed"}
    /\ procs' = [procs EXCEPT ![p] = Process("start", op, id, val, tags)]
    /\ UNCHANGED <<dbExists, tables, config, secrets, flist, fs, last, boundKey, plain>>

\* init: the database file must not exist and the key must be usable
init_verify(p) ==
    /\ procs[p].pc = "start" /\ procs[p].op = "init"
    /\ IF DbAlreadyExists
        THEN Return(p, "DatabaseAlreadyExists")
        ELSE \E answer \in KeyAnswers :
            IF verify_gpg_key(answer) # "Ok"
            THEN Return(p, verify_gpg_key(answer))
            ELSE Goto(p, "verified")
    /\ UNCHANGED <<dbExists, tables, config, secrets, flist, fs, last, boundKey, plain>>

\* init: Connection::open(DB_NAME) creates the file when there is none
init_open(p) ==
    /\ procs[p].pc = "verified"
    /\ dbExists' = TRUE
    /\ Goto(p, "opened")
    /\ UNCHANGED <<tables, config, secrets, flist, fs, last, boundKey, plain>>

\* CREATE TABLE fails on a table that exists
TableExists(table) == table \in tables

\* init: the three CREATE TABLE statements, in their order
init_create_table(p, table) ==
    /\ \/ procs[p].pc = "opened" /\ table = "config"
       \/ procs[p].pc = "config" /\ table = "secrets"
       \/ procs[p].pc = "secrets" /\ table = "flist"
    /\ IF TableExists(table)
        THEN Return(p, "DatabaseError") /\ UNCHANGED tables
        ELSE Goto(p, table) /\ tables' = tables \cup {table}
    /\ UNCHANGED <<dbExists, config, secrets, flist, fs, last, boundKey, plain>>

\* init: INSERT INTO config (key is the PRIMARY KEY), then Ok
init_insert(p) ==
    /\ procs[p].pc = "flist"
    /\ IF ConfigValues # {}
        THEN Return(p, "DatabaseError") /\ UNCHANGED <<config, boundKey>>
        ELSE /\ config' = config \cup {ConfigRow(procs[p].id)}
             /\ boundKey' = procs[p].id
             /\ Return(p, "Ok")
    /\ UNCHANGED <<dbExists, tables, secrets, flist, fs, last, plain>>

\* add, update: open_database, the check of the source file (file operations)
\* and the COUNT query
check_record(p) ==
    /\ procs[p].pc = "start"
    /\ procs[p].op \in {"add_secret", "update_secret", "add", "update"}
    /\ IF open_database # "Ok" THEN Return(p, open_database)
       ELSE IF procs[p].op \in FileOps /\ ~PathExists(procs[p].id)
       THEN Return(p, "FileNotFound")
       ELSE IF ~TableExists(TableOf(procs[p].op)) THEN Return(p, "DatabaseError")
       ELSE IF procs[p].op \in {"add_secret", "add"} /\ Count(p) > 0
       THEN Return(p, "FileAlreadyExists")
       ELSE IF procs[p].op \in {"update_secret", "update"} /\ Count(p) = 0
       THEN Return(p, "FileNotInStorage")
       ELSE Goto(p, "checked")
    /\ UNCHANGED <<dbExists, tables, config, secrets, flist, fs, last, boundKey, plain>>

\* add, update: fs::read (file operations), get_gpg_key_hash and encrypt_content
encrypt_value(p) ==
    /\ procs[p].pc = "checked"
    /\ IF procs[p].op \in FileOps /\ ~CanRead(procs[p].id) THEN Return(p, "IoError")
       ELSE IF ~TableExists("config") \/ ConfigValues = {} THEN Return(p, "DatabaseError")
       ELSE \E answer \in KeyAnswers :
           IF encrypt_error(answer) # "Ok" THEN Return(p, "GpgError")
           ELSE LET content == IF procs[p].op \in FileOps THEN ReadFile(procs[p].id)
                               ELSE procs[p].val[1]
                IN  procs' = [procs EXCEPT
                        ![p].pc = "encrypted",
                        ![p].val = <<content>>,
                        ![p].body = <<encrypt_content(content, get_gpg_key_hash)>>]
    /\ UNCHANGED <<dbExists, tables, config, secrets, flist, fs, last, boundKey, plain>>

\* Mutation: the tables have no UNIQUE constraint
UniqueViolationNone(p) == FALSE

\* name TEXT NOT NULL UNIQUE, realpath TEXT NOT NULL UNIQUE: an INSERT of an
\* identifier that is in the table fails
UniqueViolation(p) == Count(p) > 0

\* add, update: the INSERT or UPDATE statement
write_record(p) ==
    /\ procs[p].pc = "encrypted"
    /\ IF procs[p].op \in {"add_secret", "add"} /\ UniqueViolation(p)
        THEN Return(p, "DatabaseError") /\ UNCHANGED <<secrets, flist>>
        ELSE /\ Goto(p, "wrote")
             /\ secrets' =
                   IF procs[p].op = "add_secret"
                   THEN InsertSecret(secrets, RecordId(p), procs[p].body[1], procs[p].tags)
                   ELSE IF procs[p].op = "update_secret" /\ procs[p].tags # <<>>
                   THEN UpdateSecretBodyTags(secrets, RecordId(p), procs[p].body[1],
                                             procs[p].tags)
                   ELSE IF procs[p].op = "update_secret"
                   THEN UpdateSecretBody(secrets, RecordId(p), procs[p].body[1])
                   ELSE secrets
             /\ flist' =
                   IF procs[p].op = "add"
                   THEN InsertFile(flist, RecordId(p), procs[p].body[1])
                   ELSE IF procs[p].op = "update"
                   THEN UpdateFileBody(flist, RecordId(p), procs[p].body[1])
                   ELSE flist
    /\ UNCHANGED <<dbExists, tables, config, fs, last, boundKey, plain>>

\* remove: open_database and the DELETE statement
delete_record(p) ==
    /\ procs[p].pc = "start"
    /\ procs[p].op \in {"remove_secret", "remove"}
    /\ IF open_database # "Ok"
        THEN Return(p, open_database) /\ UNCHANGED <<secrets, flist>>
        ELSE IF ~TableExists(TableOf(procs[p].op))
        THEN Return(p, "DatabaseError") /\ UNCHANGED <<secrets, flist>>
        ELSE /\ Goto(p, "wrote")
             /\ secrets' = IF procs[p].op = "remove_secret"
                           THEN DeleteSecret(secrets, RecordId(p)) ELSE secrets
             /\ flist' = IF procs[p].op = "remove"
                         THEN DeleteFile(flist, RecordId(p)) ELSE flist
    /\ UNCHANGED <<dbExists, tables, config, fs, last, boundKey, plain>>

\* add, update, remove: println! and Ok(())
return_ok(p) ==
    /\ procs[p].pc = "wrote"
    /\ Return(p, "Ok")
    /\ UNCHANGED <<dbExists, tables, config, secrets, flist, fs, last, boundKey, plain>>

\* The process is interrupted (a signal, a power cut) where it is
Interrupt(p) ==
    /\ procs[p].pc \notin {"none", "done", "killed"}
    /\ Over(p, "killed", None)
    /\ UNCHANGED <<dbExists, tables, config, secrets, flist, fs, last, boundKey, plain>>

----------------------------------------------------------------------------
(* Specifications *)

Init ==
    /\ dbExists = FALSE
    /\ config = {}
    /\ secrets = {}
    /\ flist = {}
    /\ fs = [n \in FileNodes |-> 1]
    /\ last = NoInvocation
    /\ boundKey = NoKey
    /\ plain = {}
    /\ tables = {}
    /\ procs = [p \in Pids |-> NotRunning]

InitStep == \E key_hash \in Keys : init(key_hash)

\* The secret operations, with names from N and tag lists from T
SecretStep(N, T) ==
    \/ \E name \in N, value \in Contents, tags \in T : add_secret(name, value, tags)
    \/ \E tags \in T : list_secrets(tags)
    \/ \E name \in N, value \in Contents, tags \in T : update_secret(name, value, tags)
    \/ \E name \in N : remove_secret(name)
    \/ \E name \in N : show_secret(name)

\* The file operations, with file names from P
FileStep(P) ==
    \/ \E filename \in P : add(filename)
    \/ list
    \/ \E filename \in P : update(filename)
    \/ \E filename \in P : remove(filename)
    \/ \E filename \in P, rel \in BOOLEAN, confirm \in BOOLEAN :
           export(filename, rel, confirm)

\* The user's changes to the files the names of P reach
UserStep(P) ==
    \/ \E filename \in P, content \in Contents : EditFile(Node(filename), content)
    \/ \E filename \in P : UnlinkFile(Node(filename))

\* main: the invocation ends and the process exits
main_exit ==
    /\ ~Idle
    /\ UNCHANGED procs
    /\ last' = NoInvocation
    /\ UNCHANGED <<dbExists, tables, config, secrets, flist, fs, boundKey, plain>>

NextSecret ==
    \/ InitStep
    \/ SecretStep(Names, TagInputs)
    \/ main_exit

NextFile ==
    \/ InitStep
    \/ FileStep(PathInputs)
    \/ UserStep(PathInputs)
    \/ main_exit

Next ==
    \/ InitStep
    \/ SecretStep(Names, BasicTags)
    \/ FileStep(BasicPaths)
    \/ UserStep(BasicPaths)
    \/ main_exit

NextSame ==
    \/ InitStep
    \/ SecretStep(SameNames, NoTags)
    \/ FileStep(SamePaths)
    \/ UserStep(SamePaths)
    \/ main_exit

\* The invocations of the processes: one key, one secret and one file
StepKeys == {<<"K", "1">>}

StepNames == {<<"d">>}

StepPaths == {<<"a">>}

\* init and the invocations on secrets a process starts
StartSecretStep(p) ==
    \/ \E key_hash \in StepKeys : Start(p, "init", key_hash, <<>>, <<>>)
    \/ \E name \in StepNames, value \in Contents, tags \in BasicTags :
          \E op \in {"add_secret", "update_secret"} : Start(p, op, name, <<value>>, tags)
    \/ \E name \in StepNames : Start(p, "remove_secret", name, <<>>, <<>>)

\* init and the invocations on files a process starts
StartFileStep(p) ==
    \/ \E key_hash \in StepKeys : Start(p, "init", key_hash, <<>>, <<>>)
    \/ \E filename \in StepPaths, op \in FileOps : Start(p, op, filename, <<>>, <<>>)

\* One statement of one process
ProcessStep(p) ==
    \/ init_verify(p)
    \/ init_open(p)
    \/ \E table \in AllTables : init_create_table(p, table)
    \/ init_insert(p)
    \/ check_record(p)
    \/ encrypt_value(p)
    \/ write_record(p)
    \/ delete_record(p)
    \/ return_ok(p)

NextSteps ==
    \/ \E p \in Pids : StartSecretStep(p)
    \/ \E p \in Pids : ProcessStep(p)
    \/ \E p \in Pids : Interrupt(p)

NextFileSteps ==
    \/ \E p \in Pids : StartFileStep(p)
    \/ \E p \in Pids : ProcessStep(p)
    \/ \E p \in Pids : Interrupt(p)
    \/ UserStep(StepPaths)

\* Secrets alone, with every tag list of TagInputs
SpecSecret == Init /\ [][NextSecret]_vars

\* Files alone, with every spelling of PathInputs
SpecFile == Init /\ [][NextFile]_vars

\* Secrets and files together, with the tag lists and spellings of BasicTags
\* and BasicPaths
Spec == Init /\ [][Next]_vars

\* Secrets and files together, where a secret has the identifier of a file
SpecSame == Init /\ [][NextSame]_vars

\* Two processes that run init and the operations on secrets statement by
\* statement, with interruptions
SpecSteps == Init /\ [][NextSteps]_vars

\* Two processes that run init and the operations on files statement by
\* statement, with interruptions, and the user who edits the files
SpecFileSteps == Init /\ [][NextFileSteps]_vars

----------------------------------------------------------------------------
(* Properties *)

Active == dbExists

\* The tables of the vault
store == <<config, secrets, flist>>

\* The row of config that binds the vault to key_hash
BoundRow(key_hash) == [key |-> "gpg_key_hash", value |-> key_hash]

\* The realpath a file operation was given belongs to a record of the vault
InFlist(filename) == \E r \in flist : r.realpath = get_absolute_path(filename)

InSecrets(name) == \E r \in secrets : r.name = name

\* C1 as stated: in an Active vault, an add of an id that already exists fails
\* with FileAlreadyExists and leaves the tables as they are, whatever the state
\* of the source file on disk.
C1_AddExistingAlwaysAlreadyExists ==
    [][/\ (last'.op = "add_secret" /\ Active /\ InSecrets(last'.arg))
            => (last'.res = "FileAlreadyExists" /\ store' = store)
       /\ (last'.op = "add" /\ Active /\ InFlist(last'.arg))
            => (last'.res = "FileAlreadyExists" /\ store' = store)]_vars

\* C1 as amended: in an Active vault, an add of an id that already exists
\* fails and leaves the tables as they are; the error is FileAlreadyExists,
\* except for a file add whose source file is missing on disk, which fails
\* with FileNotFound (the source file is checked first).
C1_AddExistingFails ==
    [][/\ (last'.op = "add_secret" /\ Active /\ InSecrets(last'.arg))
            => (last'.res = "FileAlreadyExists" /\ store' = store)
       /\ (last'.op = "add" /\ Active /\ InFlist(last'.arg))
            => /\ last'.res = IF PathExists(last'.arg) THEN "FileAlreadyExists"
                              ELSE "FileNotFound"
               /\ store' = store]_vars

\* A file add of a record that exists, with its source file on disk, has failed.
C1_Witness ==
    /\ last.op = "add"
    /\ last.res = "FileAlreadyExists"
    /\ InFlist(last.arg)
    /\ PathExists(last.arg)

\* C2 as stated: in an Active vault, an update of an id that is not in the
\* vault fails with FileNotInStorage and writes nothing to the tables, whatever
\* the state of the source file on disk.
C2_UpdateMissingAlwaysNotInStorage ==
    [][/\ (last'.op = "update_secret" /\ Active /\ ~InSecrets(last'.arg))
            => (last'.res = "FileNotInStorage" /\ store' = store)
       /\ (last'.op = "update" /\ Active /\ ~InFlist(last'.arg))
            => (last'.res = "FileNotInStorage" /\ store' = store)]_vars

\* C2 as amended: in an Active vault, an update of an id that is not in the
\* vault fails and writes nothing to the tables; the error is FileNotInStorage,
\* except for a file update whose source file is missing on disk, which fails
\* with FileNotFound (the source file is checked first).
C2_UpdateMissingFails ==
    [][/\ (last'.op = "update_secret" /\ Active /\ ~InSecrets(last'.arg))
            => (last'.res = "FileNotInStorage" /\ store' = store)
       /\ (last'.op = "update" /\ Active /\ ~InFlist(last'.arg))
            => /\ last'.res = IF PathExists(last'.arg) THEN "FileNotInStorage"
                              ELSE "FileNotFound"
               /\ store' = store]_vars

\* A file update of a name that is not in the vault has failed, while the
\* vault holds a record under another name.
C2_Witness ==
    /\ last.op = "update"
    /\ last.res = "FileNotInStorage"
    /\ ~InFlist(last.arg)
    /\ flist # {}

\* C3: a show with the private key available succeeds and prints the
\* plaintext of the last successful add or update of that name, and an export
\* that wrote its file left in it the plaintext of the last successful add or
\* update of that path, whatever was done to other records in between.
C3_ReadReturnsLastWritten ==
    /\ (last.op = "show_secret" /\ last.dec = "ok")
         => /\ last.res = "Ok"
            /\ \E e \in plain :
                  e.kind = "secret" /\ e.id = last.arg /\ last.out = <<e.data>>
    /\ (last.op = "export" /\ last.dec = "ok" /\ last.confirm)
         => last.res = "Ok"
    /\ (last.op = "export" /\ last.res = "Ok" /\ last.out # <<>>)
         => \E e \in plain :
               /\ e.kind = "file"
               /\ e.id = get_absolute_path(last.arg)
               /\ fs[Node(last.out)] = e.data

\* An export with --yes has written the second content to its file, from a
\* vault that holds two file records.
C3_Witness ==
    /\ last.op = "export"
    /\ last.res = "Ok"
    /\ last.confirm
    /\ last.out # <<>>
    /\ Cardinality(flist) = 2
    /\ fs[Node(last.out)] = 2
    /\ \E r \in flist : r.realpath # get_absolute_path(last.arg) /\ r.body.data = 1

\* C4 as stated: the vault never holds two file records for one file.
C4_OneRecordPerFile ==
    \A r1 \in flist : \A r2 \in flist :
        Node(r1.realpath) = Node(r2.realpath) => r1 = r2

\* C5: init on an Uninitialized vault with a key that is found and can encrypt
\* succeeds and leaves the vault Active with the one row gpg_key_hash -> that
\* key; init on an Active vault fails with DatabaseAlreadyExists and changes
\* nothing, with the same key or another.
C5_InitOnce ==
    [][/\ (last'.op = "init" /\ ~Active /\ last'.key = "ok")
            => /\ last'.res = "Ok"
               /\ dbExists'
               /\ config' = {BoundRow(last'.arg)}
       /\ (last'.op = "init" /\ Active)
            => /\ last'.res = "DatabaseAlreadyExists"
               /\ UNCHANGED <<dbExists, config, secrets, flist, fs>>]_vars

\* A second init, with another key than the vault's, has failed on a vault
\* that holds records.
C5_Witness ==
    /\ last.op = "init"
    /\ last.res = "DatabaseAlreadyExists"
    /\ config = {BoundRow(<<"K", "1">>)}
    /\ last.arg = <<"K", "2">>
    /\ secrets # {}

\* C6: once the vault exists, config holds exactly one row, written by the
\* init that created the vault with the key given to it, and no later step
\* changes the table.
C6_ConfigWrittenOnce ==
    [][/\ (~dbExists /\ dbExists')
            => (last'.op = "init" /\ config' = {BoundRow(last'.arg)})
       /\ dbExists
            => (dbExists' /\ config' = config /\ Cardinality(config) = 1)]_vars

\* A secret was updated in a vault bound to K2, and config holds that row.
C6_Witness ==
    /\ last.op = "update_secret"
    /\ last.res = "Ok"
    /\ config = {BoundRow(<<"K", "2">>)}

\* The operations that open the vault
VaultOps ==
    {"add_secret", "list_secrets", "update_secret", "remove_secret", "show_secret",
     "add", "list", "update", "remove", "export"}

\* C7: on an Uninitialized vault every file and secret operation fails with
\* DatabaseNotFound without asking the keyring, the decryption or the console,
\* and changes neither the vault nor the files; only init creates the vault.
C7_NoVaultFailsFast ==
    [][/\ (last'.op \in VaultOps /\ ~dbExists)
            => /\ last'.res = "DatabaseNotFound"
               /\ last'.key = None /\ last'.dec = None /\ last'.ans = <<>>
               /\ UNCHANGED <<dbExists, config, secrets, flist, fs>>
       /\ (~dbExists /\ dbExists') => last'.op = "init"]_vars

\* An export has failed on an Uninitialized vault.
C7_Witness ==
    /\ last.op = "export"
    /\ last.res = "DatabaseNotFound"
    /\ ~dbExists

\* C8: in an Active vault a remove succeeds and leaves no record of that id,
\* so that a second remove of the id finds none; a remove of an id that is not
\* in the vault succeeds with the not-found notice and leaves the tables as
\* they are.
C8_RemoveAbsentSucceeds ==
    [][/\ (last'.op = "remove_secret" /\ Active)
            => /\ last'.res = "Ok"
               /\ \A r \in secrets' : r.name # last'.arg
       /\ (last'.op = "remove_secret" /\ Active /\ ~InSecrets(last'.arg))
            => (last'.note = "not found" /\ store' = store)
       /\ (last'.op = "remove" /\ Active)
            => /\ last'.res = "Ok"
               /\ \A r \in flist' : r.realpath # get_absolute_path(last'.arg)
       /\ (last'.op = "remove" /\ Active /\ ~InFlist(last'.arg))
            => (last'.note = "not found" /\ store' = store)]_vars

\* A remove of a secret that is not in the vault has succeeded, in a vault
\* that holds another secret.
C8_Witness ==
    /\ last.op = "remove_secret"
    /\ last.res = "Ok"
    /\ last.note = "not found"
    /\ secrets # {}

\* The tags of a comma-delimited list, each trimmed; no tags for the empty list
TagSet(s) == IF s = <<>> THEN {} ELSE {Trim(t) : t \in Range(SplitAt(s, ","))}

\* C9 as stated: secret list prints exactly the secrets whose tag set meets
\* the tag set of the filter, and all of them for the empty filter; a secret
\* stored with no tags is not printed for a filter that is not empty.
C9_ListFiltersByTagSets ==
    (last.op = "list_secrets" /\ last.res = "Ok")
        => {last.out[i][1] : i \in 1..Len(last.out)}
             = {r.name : r \in {x \in secrets :
                    last.arg = <<>> \/ TagSet(x.tags) \cap TagSet(last.arg) # {}}}

\* C10: in an Active vault, show of a name that is not in the vault fails with
\* SecretNotInStorage and export of a path that is not in the vault fails with
\* FileNotInStorage; neither asks for a decryption or prompts, and nothing is
\* written to a file or to the tables.
C10_ReadMissingFails ==
    [][/\ (last'.op = "show_secret" /\ Active /\ ~InSecrets(last'.arg))
            => /\ last'.res = "SecretNotInStorage"
               /\ last'.dec = None /\ last'.ans = <<>>
               /\ fs' = fs /\ store' = store
       /\ (last'.op = "export" /\ Active /\ ~InFlist(last'.arg))
            => /\ last'.res = "FileNotInStorage"
               /\ last'.dec = None /\ last'.ans = <<>>
               /\ fs' = fs /\ store' = store]_vars

\* An export without --yes of a path that is not in the vault has failed,
\* where the file to write exists and the vault holds another record.
C10_Witness ==
    /\ last.op = "export"
    /\ last.res = "FileNotInStorage"
    /\ ~last.confirm
    /\ PathExists(last.arg)
    /\ flist # {}

\* C11: in an Active vault the body of every secret record and of every file
\* record is the ciphertext, to the key of the configuration row, of the
\* plaintext given to the last successful add or update of that record; no
\* body is a plaintext or a ciphertext to another key.
C11_BodiesEncryptedToBoundKey ==
    Active =>
        /\ \A r \in secrets :
              /\ r.body.to \in ConfigValues
              /\ \E e \in plain :
                    /\ e.kind = "secret" /\ e.id = r.name
                    /\ r.body = Ciphertext(get_gpg_key_hash, e.data)
        /\ \A r \in flist :
              /\ r.body.to \in ConfigValues
              /\ \E e \in plain :
                    /\ e.kind = "file" /\ e.id = r.realpath
                    /\ r.body = Ciphertext(get_gpg_key_hash, e.data)

\* A file was updated in a vault bound to the second key that holds a secret
\* too, and both bodies are ciphertexts to that key.
C11_Witness ==
    /\ last.op = "update"
    /\ last.res = "Ok"
    /\ secrets # {}
    /\ \A r \in secrets \cup flist : r.body.to = <<"K", "2">>

\* The answers of the keyring and the engine with which encrypt_content fails
KeyFailures == {"noenc", "absent", "engine"}

\* C12: an add or update (of a file or a secret) for which the bound key is
\* not found, cannot encrypt, or the engine fails, ends with the GPG error and
\* leaves the tables as they are: no record is inserted, no body and no tag
\* list is replaced. The keyring is asked once per invocation.
C12_EncryptionFailureKeepsStore ==
    [][(/\ last'.op \in {"add_secret", "update_secret", "add", "update"}
        /\ last'.key \in KeyFailures)
            => /\ last'.res = "GpgError"
               /\ store' = store
               /\ fs' = fs]_vars

\* An update of a secret that is in the vault with tags has failed because
\* the bound key cannot encrypt any more, with other tags given.
C12_Witness ==
    /\ last.op = "update_secret"
    /\ last.key = "noenc"
    /\ last.res = "GpgError"
    /\ \E r \in secrets : r.name = last.arg /\ r.tags # <<>> /\ r.tags # last.tags

\* C13: init on an Uninitialized vault with a key that is not in the keyring,
\* or that cannot encrypt, fails with GpgKeyNotFound and creates nothing: the
\* vault stays Uninitialized, with no table and no configuration row; and an
\* init with a key that is found and can encrypt succeeds on every
\* Uninitialized vault, whatever failed before.
C13_InitBadKeyCreatesNothing ==
    [][/\ (last'.op = "init" /\ ~dbExists /\ last'.key \in {"absent", "noenc"})
            => /\ last'.res = "GpgKeyNotFound"
               /\ ~dbExists'
               /\ store' = store /\ store' = <<{}, {}, {}>>
               /\ boundKey' = NoKey
       /\ (last'.op = "init" /\ ~dbExists /\ last'.key = "ok")
            => (last'.res = "Ok" /\ dbExists' /\ boundKey' = last'.arg)]_vars

\* An init with a key that cannot encrypt has failed and left no vault.
C13_Witness ==
    /\ last.op = "init"
    /\ last.key = "noenc"
    /\ last.res = "GpgKeyNotFound"
    /\ ~dbExists
    /\ config = {}

\* The file export writes to: the last component with --relative, else the name
Destination(o) == IF o.rel THEN file_name(o.arg) ELSE o.arg

\* The plaintext of the record an export reads
Exported(o) == (CHOOSE r \in flist : r.realpath = get_absolute_path(o.arg)).body.data

\* The export o wrote the plaintext of its record to its destination, and
\* nothing else
WroteDestination(o) ==
    /\ o.res = "Ok"
    /\ o.out = Destination(o)
    /\ fs' = [n \in DOMAIN fs \cup {Node(Destination(o))} |->
                 IF n = Node(Destination(o)) THEN Exported(o) ELSE fs[n]]

\* What export does after a decryption that succeeded, where Declined(input)
\* says which answers are a decline: it prompts exactly when --yes is not
\* given and the destination exists; on a decline it ends with Ok and leaves
\* the files as they are; otherwise it writes the destination.
ExportPrompts(Declined(_)) ==
    (last'.op = "export" /\ last'.dec = "ok")
        => IF ~last'.confirm /\ PathExists(Destination(last'))
           THEN /\ Len(last'.ans) = 1
                /\ IF Declined(last'.ans[1])
                   THEN last'.res = "Ok" /\ last'.out = <<>> /\ fs' = fs
                   ELSE WroteDestination(last')
           ELSE /\ last'.ans = <<>>
                /\ WroteDestination(last')

\* An answer that does not start with y or Y
NotStartingWithY(input) == input = <<>> \/ Head(input) \notin {"y", "Y"}

\* An answer that does not start with y or Y once the white space around it
\* is removed
NotStartingWithYTrimmed(input) == NotStartingWithY(Trim(input))

\* C14 as stated: a decline is any answer that does not start with y or Y.
C14_DeclineIsNotStartingWithY == [][ExportPrompts(NotStartingWithY)]_vars

\* C14 as amended: export without --yes prompts when the destination exists;
\* an answer that, trimmed, does not start with y or Y ends the export with Ok
\* and the files unchanged, and any other answer has the destination written;
\* with --yes, or when the destination does not exist, there is no prompt and
\* the destination is written with the decrypted content.
C14_DeclineIsTrimmedNotStartingWithY == [][ExportPrompts(NotStartingWithYTrimmed)]_vars

\* An export was declined with the answer n, and its destination still holds
\* another content than the record.
C14_Witness ==
    /\ last.op = "export"
    /\ last.res = "Ok"
    /\ last.ans = <<<<"n">>>>
    /\ last.out = <<>>
    /\ fs[Node(Destination(last))] # Exported(last)

\* The answers of ctx.decrypt with which decrypt_content fails
DecFailures == {"nokey", "badpass", "engine"}

\* C15: a show or an export whose decryption fails (no private key, bad
\* passphrase or another error of the engine) ends with the GPG error, after
\* one decryption; it prints no value and writes no file, export does not
\* prompt, and the tables and the files are as they were.
C15_DecryptionFailureProducesNothing ==
    [][(last'.op \in {"show_secret", "export"} /\ last'.dec \in DecFailures)
            => /\ last'.res = "GpgError"
               /\ last'.out = <<>>
               /\ last'.ans = <<>>
               /\ fs' = fs
               /\ store' = store]_vars

\* An export without --yes, to a destination that exists, has failed on a bad
\* passphrase.
C15_Witness ==
    /\ last.op = "export"
    /\ last.dec = "badpass"
    /\ last.res = "GpgError"
    /\ ~last.confirm
    /\ PathExists(Destination(last))

\* The one row of a secrets table with this name
SecretRow(rows, name) == CHOOSE r \in rows : r.name = name

\* C16: a secret update that succeeds leaves one row of that name; its body
\* is the ciphertext of the value given; its tag list is the one given when
\* that is not empty, and the tag list stored before when no tags are given.
C16_UpdateReplacesTagsWhenGiven ==
    [][(last'.op = "update_secret" /\ last'.res = "Ok")
            => /\ Cardinality({r \in secrets' : r.name = last'.arg}) = 1
               /\ SecretRow(secrets', last'.arg).body
                     = Ciphertext(get_gpg_key_hash, last'.val[1])
               /\ SecretRow(secrets', last'.arg).tags
                     = IF last'.tags # <<>> THEN last'.tags
                       ELSE SecretRow(secrets, last'.arg).tags]_vars

\* A secret stored with tags was given a new value by an update without
\* tags, and has its tags still.
C16_Witness ==
    /\ last.op = "update_secret"
    /\ last.res = "Ok"
    /\ last.tags = <<>>
    /\ last.val = <<2>>
    /\ SecretRow(secrets, last.arg).tags = <<"p">>
    /\ SecretRow(secrets, last.arg).body.data = 2

\* The strings of a sequence are in strictly increasing order
StrictlyIncreasing(seq) ==
    \A i \in 1..Len(seq) : \A j \in 1..Len(seq) : i < j => StrLess(seq[i], seq[j])

\* C17: file list prints every path of the vault, and secret list the names
\* it prints, in strictly increasing lexicographic order, whatever the order
\* in which the records were added, updated, removed and added again.
C17_ListsInIncreasingOrder ==
    /\ (last.op = "list" /\ last.res = "Ok")
          => /\ StrictlyIncreasing(last.out)
             /\ Range(last.out) = {r.realpath : r \in flist}
    /\ (last.op = "list_secrets" /\ last.res = "Ok")
          => /\ StrictlyIncreasing([i \in 1..Len(last.out) |-> last.out[i][1]])
             /\ last.arg = <<>>
                   => {last.out[i][1] : i \in 1..Len(last.out)} = {r.name : r \in secrets}

\* Two files are listed, /w/./a before /w/a, in a vault whose secrets are a
\* and d.
C17_Witness ==
    /\ last.op = "list"
    /\ last.res = "Ok"
    /\ last.out = <<<<"/", "w", "/", ".", "/", "a">>, <<"/", "w", "/", "a">>>>
    /\ Cardinality(secrets) = 2

\* The errors an operation of the model returns
Failures ==
    {"DatabaseNotFound", "DatabaseAlreadyExists", "FileAlreadyExists",
     "FileNotInStorage", "SecretNotInStorage", "FileNotFound", "GpgKeyNotFound",
     "GpgError", "DatabaseError", "IoError"}

\* C18: the exit code of an invocation is 0 when its operation returns Ok and
\* not 0 when it returns an error; a remove of an id that is not in the vault
\* and an export that was declined exit with 0.
C18_ExitCodeFollowsResult ==
    ~Idle =>
        /\ last.res \in Failures \cup {"Ok"}
        /\ Len(last.code) = 1
        /\ last.res = "Ok" <=> last.code[1] = 0
        /\ last.res \in Failures <=> last.code[1] # 0
        /\ (last.op \in {"remove", "remove_secret"} /\ Active) => last.code[1] = 0
        /\ (last.op = "export" /\ last.dec = "ok" /\ Len(last.ans) = 1 /\ last.out = <<>>)
              => last.code[1] = 0

\* An export was declined and exits with 0.
C18_Witness ==
    /\ last.op = "export"
    /\ last.ans = <<<<>>>>
    /\ last.out = <<>>
    /\ last.code = <<0>>

\* s ends with t
EndsWith(s, t) == Len(t) <= Len(s) /\ SubSeq(s, Len(s) - Len(t) + 1, Len(s)) = t

\* C19: the identifier under which a file name is stored is absolute: the
\* name itself when it is absolute, and else the current directory, a slash
\* and the name; get_absolute_path of an identifier is that identifier.
C19_AbsolutePathOfName ==
    /\ \A r \in flist :
          /\ Head(r.realpath) = "/"
          /\ get_absolute_path(r.realpath) = r.realpath
    /\ (last.op \in {"add", "update"} /\ last.res = "Ok")
          => \E r \in flist :
                /\ Head(last.arg) = "/" => r.realpath = last.arg
                /\ Head(last.arg) # "/" => r.realpath = CurrentDir \o <<"/">> \o last.arg
                /\ EndsWith(r.realpath, last.arg)
                /\ r.body.data = last.val[1]

\* A file was added under its absolute name, in a vault that holds it under a
\* relative name with dots too.
C19_Witness ==
    /\ last.op = "add"
    /\ last.res = "Ok"
    /\ last.arg = <<"/", "w", "/", "a">>
    /\ \E r \in flist : r.realpath = last.arg
    /\ \E r \in flist : r.realpath = <<"/", "w", "/", "d", "/", ".", ".", "/", "a">>

\* C20: an invocation changes at most one record. A secret add, update or
\* remove leaves the file records and every secret of another name as they
\* are; a file add, update or remove leaves the secrets and every file record
\* of another path as they are, also the secret whose name is that path;
\* none of them changes the configuration; list, show, export and every
\* operation that fails leave all the tables as they are.
C20_AtMostOneRecordChanges ==
    [][/\ last'.op \in {"add_secret", "update_secret", "remove_secret"}
            => /\ flist' = flist
               /\ config' = config
               /\ {r \in secrets' : r.name # last'.arg}
                     = {r \in secrets : r.name # last'.arg}
       /\ last'.op \in {"add", "update", "remove"}
            => /\ secrets' = secrets
               /\ config' = config
               /\ {r \in flist' : r.realpath # get_absolute_path(last'.arg)}
                     = {r \in flist : r.realpath # get_absolute_path(last'.arg)}
       /\ last'.op \in {"list", "list_secrets", "show_secret", "export"}
            => store' = store
       /\ (last'.op # "none" /\ last'.res # "Ok")
            => store' = store]_vars

\* The file a was updated in a vault that holds the file d/a and a secret
\* named /w/a, both with another content.
C20_Witness ==
    /\ last.op = "update"
    /\ last.res = "Ok"
    /\ last.arg = <<"a">>
    /\ \E r \in secrets : r.name = <<"/", "w", "/", "a">> /\ r.body.data # last.val[1]
    /\ \E r \in flist : r.realpath # <<"/", "w", "/", "a">> /\ r.body.data # last.val[1]


\* The process p is at its INSERT or UPDATE statement
AtWrite(p) == procs[p].pc = "encrypted"

\* The rows the write statement of p gives when it is executed as a whole:
\* every column of the row is the one the statement sets, or the one stored
\* before for a column the statement does not name.
WholeSecretRows(p) ==
    IF procs[p].op = "add_secret" \/ (procs[p].op = "update_secret" /\ procs[p].tags # <<>>)
    THEN {[name |-> procs[p].id, body |-> procs[p].body[1], tags |-> procs[p].tags]}
    ELSE IF procs[p].op = "update_secret"
    THEN {[name |-> r.name, body |-> procs[p].body[1], tags |-> r.tags] :
             r \in {s \in secrets : s.name = procs[p].id}}
    ELSE {}

WholeFileRows(p) ==
    IF procs[p].op \in {"add", "update"}
    THEN {[realpath |-> get_absolute_path(procs[p].id), body |-> procs[p].body[1]]}
    ELSE {}

\* The process p is interrupted in this step
Interrupted(p) == procs[p].pc # "killed" /\ procs'[p].pc = "killed"

\* C21: an interruption of add, update or remove leaves the tables as the
\* statements executed so far left them, and every step gives a table only rows
\* that a write statement of a process produces as a whole: the row an add
\* inserts is complete, and the row a secret update with tags leaves has the new
\* body and the new tags together (the old row stays until then).
C21_RecordsFromWholeStatements ==
    [][/\ (\E p \in Pids : Interrupted(p)) => store' = store
       /\ \A r \in secrets' \ secrets :
             \E p \in Pids : AtWrite(p) /\ procs'[p].pc = "wrote" /\ r \in WholeSecretRows(p)
       /\ \A r \in flist' \ flist :
             \E p \in Pids : AtWrite(p) /\ procs'[p].pc = "wrote" /\ r \in WholeFileRows(p)]_vars

\* A secret update that gives a body and tags was interrupted after its UPDATE
\* statement and the row has the new tags
C21_Witness ==
    \E p \in Pids :
        /\ procs[p].pc = "killed" /\ procs[p].op = "update_secret" /\ procs[p].at = "wrote"
        /\ \E r \in secrets : r.name = procs[p].id /\ r.tags = <<"p">> /\ r.body.data = 2

\* No process is inside init
NoInitRunning ==
    \A p \in Pids : procs[p].op = "init" => procs[p].pc \in {"done", "killed"}

\* C22 as stated: in every state where no init is running, also after an init
\* that was interrupted or failed part-way, a vault whose storage file is
\* present has its three tables and its configuration row.
C22_ActiveVaultIsComplete ==
    (Active /\ NoInitRunning) => (tables = AllTables /\ ConfigValues # {})

\* The process q has executed the INSERT of its add
HasInserted(q) ==
    /\ procs[q].op \in {"add_secret", "add"}
    /\ \/ procs[q].pc = "wrote"
       \/ procs[q].pc = "done" /\ procs[q].res = "Ok"
       \/ procs[q].pc = "killed" /\ procs[q].at = "wrote"

\* The process p executes its INSERT or UPDATE statement in this step
Writes(p) == AtWrite(p) /\ procs'[p].pc \in {"wrote", "done"}

\* The row of the table of p with the identifier of p has the body and the tags
\* that q holds
HoldsContentOf(p, q) ==
    IF procs[p].op = "add_secret"
    THEN \A r \in secrets : r.name = RecordId(p)
                => (r.body = procs[q].body[1] /\ r.tags = procs[q].tags)
    ELSE \A r \in flist : r.realpath = RecordId(p) => r.body = procs[q].body[1]

\* C23: when two invocations add the same id and both have passed the
\* existence check, the INSERT that finds the record of the other fails
\* with DatabaseError and changes nothing, so that only the other invocation
\* can report success and the record keeps its content; an INSERT that finds
\* none inserts its own content; and the table never holds two records for
\* the id.
C23_ConcurrentAddsKeepOneRecord ==
    [][\A p \in Pids : \A q \in Pids \ {p} :
          (/\ procs[p].op \in {"add_secret", "add"} /\ procs[q].op = procs[p].op
           /\ RecordId(q) = RecordId(p) /\ Writes(p))
          => /\ Count(p)' <= 1
             /\ IF Count(p) > 0
                THEN /\ procs'[p].pc = "done" /\ procs'[p].res = "DatabaseError"
                     /\ store' = store
                     /\ (HasInserted(q) /\ procs[q].pc = "wrote") => HoldsContentOf(p, q)
                ELSE /\ procs'[p].pc = "wrote" /\ Count(p)' = 1
                     /\ HoldsContentOf(p, p)']_vars

\* Two adds of the same secret are over: the one that inserted first reported
\* success, the other failed at its INSERT, and there is one record
C23_Witness ==
    /\ procs["p1"].op = "add_secret" /\ procs["p1"].pc = "done"
    /\ procs["p1"].res = "DatabaseError" /\ procs["p1"].at = "encrypted"
    /\ procs["p2"].op = "add_secret" /\ procs["p2"].pc = "done" /\ procs["p2"].res = "Ok"
    /\ procs["p2"].id = procs["p1"].id
    /\ CountSecrets(procs["p1"].id) = 1

\* The row of the table of p with the identifier of p holds the body p computed
HoldsNewBody(p) ==
    IF procs[p].op = "update_secret"
    THEN \E r \in secrets : r.name = RecordId(p) /\ r.body = procs[p].body[1]
    ELSE \E r \in flist : r.realpath = RecordId(p) /\ r.body = procs[p].body[1]

\* C24 as stated: an update that goes on to report success leaves, right after
\* its UPDATE statement, the record of its id with the new encrypted body, also
\* when another invocation removed the record after the update's existence
\* check.
C24_SuccessfulUpdateHoldsNewBody ==
    [][\A p \in Pids :
          (procs[p].op \in {"update_secret", "update"} /\ Writes(p) /\ procs'[p].pc = "wrote")
          => HoldsNewBody(p)']_vars

\* The last component of a path
FinalComponent(p) == Components(p)[Len(Components(p))]

\* The node of the destination the export o is to write: the path as it was
\* spelled, or its final component in the current directory with --relative
DestinationNode(o) ==
    IF o.rel THEN Append(Components(CurrentDir), FinalComponent(o.arg)) ELSE Node(o.arg)

\* The answer to the prompt of the export o was a decline
WasDeclined(o) == Len(o.ans) = 1 /\ NotStartingWithYTrimmed(o.ans[1])

====
